---- MODULE Spec2Model ----
(***************************************************************************)
(* Model of packages/hop-node/src/config/validation.ts: the two-pass       *)
(* configuration validator of the hop bonder node.                         *)
(*                                                                         *)
(* A JavaScript object is a function whose domain is its set of keys; a    *)
(* primitive value is a record with the fields typeof, num, str. Object.keys *)
(* and for-in enumerate the keys of an object in insertion order; the      *)
(* model fixes one insertion order for all objects, KeyOrder.              *)
(*                                                                         *)
(* Each pass is a sequence of rules.  A rule is an operator from the       *)
(* configuration to the error it throws (or Ok); the action of a rule      *)
(* either throws, which ends the pass, or moves on to the next rule.       *)
(***************************************************************************)
EXTENDS Naturals, Sequences, FiniteSets, TLC

VARIABLES
  pass,           \* "structure": validateConfigFileStructure, "values": validateConfigValues
  config,         \* the argument of the pass
  enabledTokensG, \* what getEnabledTokens() returns (value pass)
  pc,             \* the rule the pass is about to evaluate, or "done"
  result          \* pending, ok (the promise resolved) or the error thrown

vars == <<pass, config, enabledTokensG, pc, result>>

----------------------------------------------------------------------------
(* JavaScript values *)

Undefined == [typeof |-> "undefined", num |-> 0, str |-> ""]
Num(k) == [typeof |-> "number", num |-> k, str |-> ""]
Str(t) == [typeof |-> "string", num |-> 0, str |-> t]
Bool(b) == [typeof |-> "boolean", num |-> IF b THEN 1 ELSE 0, str |-> ""]
EmptyObject == [k \in {} |-> Undefined]

\* No object of the model has a key named typeof.
IsObject(v) == ~("typeof" \in DOMAIN v)

TypeOf(v) == IF IsObject(v) THEN "object" ELSE v.typeof

\* ToBoolean: objects are truthy; undefined, 0, "" and false are falsy.
Truthy(v) ==
  IF IsObject(v) THEN TRUE
  ELSE CASE v.typeof = "undefined" -> FALSE
         [] v.typeof = "number" -> v.num # 0
         [] v.typeof = "string" -> v.str # ""
         [] v.typeof = "boolean" -> v.num = 1
         [] OTHER -> FALSE

\* o[k] and o?.[k]: a missing key reads as undefined.
Get(o, k) == IF IsObject(o) /\ k \in DOMAIN o THEN o[k] ELSE Undefined

Range(q) == {q[i] : i \in 1..Len(q)}
Includes(q, k) == \E i \in 1..Len(q) : q[i] = k
Min(S) == CHOOSE i \in S : \A j \in S : i <= j

\* The insertion order of keys, the same for every object of the model.
KeyOrder ==
  << "network", "networks", "chains", "sync", "tokens", "commitTransfers",
     "bondWithdrawals", "settleBondedWithdrawals", "watchers", "db", "logging",
     "keystore", "addresses", "metrics", "fees", "routes", "bonders", "signer",
     "vault", "blocklist", "foo",
     "ethereum", "optimism", "fantom",
     "USDC", "DAI", "FAKE",
     "rpcUrl", "maxGasPrice", "waitConfirmations",
     "bondWithdrawal", "location", "level", "pass", "type", "keyId", "enabled",
     "port", "minThresholdAmount", "path",
     "depositThresholdAmount", "depositAmount", "strategy", "autoWithdraw",
     "autoDeposit" >>

\* Object.keys(o), for an object, a number or a boolean (the last two have no keys)
Keys(o) == IF IsObject(o) THEN SelectSeq(KeyOrder, LAMBDA k : k \in DOMAIN o) ELSE <<>>

----------------------------------------------------------------------------
(* Errors *)

Err(kind, key, token, source, chain, valid) ==
  [kind |-> kind, key |-> key, token |-> token, source |-> source,
   chain |-> chain, valid |-> valid]

Pending == Err("pending", "", "", "", "", <<>>)
Ok == Err("ok", "", "", "", "", <<>>)
\* Object.keys(undefined), or a property read of undefined
TypeError == Err("TypeError", "", "", "", "", <<>>)

\* The first error of a loop: body(q[i]) for the first i whose body throws.
FirstError(q, body(_)) ==
  LET bad == {i \in 1..Len(q) : body(q[i]) # Ok}
  IN IF bad = {} THEN Ok ELSE body(q[Min(bad)])

\* Only the first key is looked at.
validateFirstKey(validKeys, keys) ==
  IF keys # <<>> /\ ~Includes(validKeys, Head(keys))
  THEN Err("unrecognized key", Head(keys), "", "", "", validKeys)
  ELSE Ok

validateKeys(validKeys, keys) ==
  FirstError(keys, LAMBDA key :
    IF ~Includes(validKeys, key)
    THEN Err("unrecognized key", key, "", "", "", validKeys)
    ELSE Ok)

----------------------------------------------------------------------------
(* Enumerations *)

ChainEthereum == "ethereum"

validSectionKeys ==
  << "network", "chains", "sync", "tokens", "commitTransfers", "bondWithdrawals",
     "settleBondedWithdrawals", "watchers", "db", "logging", "keystore",
     "addresses", "metrics", "fees", "routes", "bonders", "signer", "vault",
     "blocklist" >>

validWatcherKeys ==
  << "bondTransferRoot", "bondWithdrawal", "challenge", "commitTransfers",
     "settleBondedWithdrawals", "confirmRoots", "L1ToL2Relay" >>

validChainKeys ==
  << "ethereum", "optimism", "arbitrum", "gnosis", "polygon", "nova", "zksync",
     "linea", "scrollzk", "base" >>

validTokenKeys ==
  << "USDC", "USDT", "DAI", "ETH", "MATIC", "WBTC", "HOP", "SNX", "sUSD", "rETH",
     "UNI" >>

----------------------------------------------------------------------------
(* validateConfigFileStructure: the locals *)

\* const enabledChains: string[] = Object.keys(config.chains)
EnabledChains(cfg) == Keys(Get(cfg, "chains"))

AllTokenKeys(cfg) == Keys(Get(cfg, "tokens"))

\* const enabledTokens = Object.keys(config.tokens).filter(token => config.tokens[token])
EnabledTokens(cfg) ==
  SelectSeq(Keys(Get(cfg, "tokens")), LAMBDA token : Truthy(cfg.tokens[token]))

\* A section whose keys are checked against one list: if (config.x) validateKeys(valid, keys)
SectionKeysRule(cfg, section, valid) ==
  IF Truthy(Get(cfg, section)) THEN validateKeys(valid, Keys(cfg[section])) ELSE Ok

----------------------------------------------------------------------------
(* validateConfigFileStructure: the rules, in the order of the code *)

ConfigRule(cfg) ==
  IF ~Truthy(cfg) THEN Err("config is required", "", "", "", "", <<>>)
  ELSE IF ~IsObject(cfg) THEN Err("config must be a JSON object", "", "", "", "", <<>>)
  ELSE Ok

SectionsRule(cfg) == validateKeys(validSectionKeys, Keys(cfg))

ChainsRuleNoBaseChain(cfg) ==
  IF ~IsObject(Get(cfg, "chains")) THEN TypeError
  ELSE IF validateKeys(validChainKeys, EnabledChains(cfg)) # Ok
  THEN validateKeys(validChainKeys, EnabledChains(cfg))
  ELSE FirstError(Keys(cfg.chains), LAMBDA key :
         validateKeys(<<"rpcUrl", "maxGasPrice">>, Keys(cfg.chains[key])))

ChainsRule(cfg) ==
  IF ~IsObject(Get(cfg, "chains")) THEN TypeError
  ELSE IF ~Includes(EnabledChains(cfg), ChainEthereum)
  THEN Err("config for chain is required", "", "", "", ChainEthereum, <<>>)
  ELSE IF validateKeys(validChainKeys, EnabledChains(cfg)) # Ok
  THEN validateKeys(validChainKeys, EnabledChains(cfg))
  ELSE FirstError(Keys(cfg.chains), LAMBDA key :
         validateKeys(<<"rpcUrl", "maxGasPrice">>, Keys(cfg.chains[key])))

TokensRule(cfg) ==
  IF ~IsObject(Get(cfg, "tokens")) THEN TypeError
  ELSE validateKeys(validTokenKeys, EnabledTokens(cfg))

WatchersRule(cfg) ==
  IF ~IsObject(Get(cfg, "watchers")) THEN TypeError
  ELSE validateKeys(validWatcherKeys, Keys(cfg.watchers))

ExclusiveRuleKeystoreOnly(cfg) ==
  IF Truthy(Get(cfg, "keystore")) /\ ~Truthy(Get(cfg, "signer"))
  THEN Err("You cannot have both a keystore and a signer", "", "", "", "", <<>>)
  ELSE Ok

ExclusiveRule(cfg) ==
  IF Truthy(Get(cfg, "keystore")) /\ Truthy(Get(cfg, "signer"))
  THEN Err("You cannot have both a keystore and a signer", "", "", "", "", <<>>)
  ELSE Ok

DbRule(cfg) == SectionKeysRule(cfg, "db", <<"location">>)

LoggingRule(cfg) ==
  IF ~Truthy(Get(cfg, "logging")) THEN Ok
  ELSE IF validateKeys(<<"level">>, Keys(cfg.logging)) # Ok
  THEN validateKeys(<<"level">>, Keys(cfg.logging))
  ELSE IF Truthy(Get(cfg.logging, "level"))
  THEN validateKeys(<<"debug", "info", "warn", "error">>, <<cfg.logging.level.str>>)
  ELSE Ok

KeystoreRule(cfg) ==
  SectionKeysRule(cfg, "keystore",
    <<"location", "pass", "passwordFile", "parameterStore", "awsRegion">>)

SignerRule(cfg) ==
  SectionKeysRule(cfg, "signer", <<"type", "keyId", "awsRegion", "lambdaFunctionName">>)

MetricsRule(cfg) == SectionKeysRule(cfg, "metrics", <<"enabled", "port">>)

AddressesRule(cfg) == SectionKeysRule(cfg, "addresses", <<"location">>)

RoutesRule(cfg) ==
  IF ~Truthy(Get(cfg, "routes")) THEN Ok
  ELSE IF validateKeys(EnabledChains(cfg), Keys(cfg.routes)) # Ok
  THEN validateKeys(EnabledChains(cfg), Keys(cfg.routes))
  ELSE FirstError(Keys(cfg.routes), LAMBDA sourceChain :
         validateKeys(EnabledChains(cfg), Keys(cfg.routes[sourceChain])))

\* The Set built on lines 186-191: every destination of every route, in order of
\* first appearance. A for-in over an undefined config.routes runs no iteration.
RECURSIVE AddAll(_, _)
AddAll(acc, items) ==
  IF items = <<>> THEN acc
  ELSE AddAll(IF Includes(acc, Head(items)) THEN acc ELSE Append(acc, Head(items)),
              Tail(items))

RECURSIVE DestsFrom(_, _, _)
DestsFrom(routes, sources, acc) ==
  IF sources = <<>> THEN acc
  ELSE DestsFrom(routes, Tail(sources), AddAll(acc, Keys(routes[Head(sources)])))

DestinationChainsOfFirstSource(cfg) ==
  LET sources == Keys(Get(cfg, "routes"))
  IN DestsFrom(Get(cfg, "routes"),
               IF sources = <<>> THEN <<>> ELSE <<Head(sources)>>, <<>>)

DestinationChains(cfg) ==
  DestsFrom(Get(cfg, "routes"), Keys(Get(cfg, "routes")), <<>>)

\* const found = (config.fees[token] as any)?.[chain]; if (!found) ...
FeeFoundByKey(cfg, token, chain) == chain \in DOMAIN cfg.fees[token]

FeeFound(cfg, token, chain) == Truthy(Get(cfg.fees[token], chain))

FeesRule(cfg) ==
  IF ~Truthy(Get(cfg, "fees")) THEN Ok
  ELSE IF validateKeys(EnabledTokens(cfg), Keys(cfg.fees)) # Ok
  THEN validateKeys(EnabledTokens(cfg), Keys(cfg.fees))
  ELSE LET destinationChains == DestinationChains(cfg)
           perToken == FirstError(Keys(cfg.fees), LAMBDA token :
             IF validateKeys(EnabledChains(cfg), Keys(cfg.fees[token])) # Ok
             THEN validateKeys(EnabledChains(cfg), Keys(cfg.fees[token]))
             ELSE FirstError(destinationChains, LAMBDA chain :
                    IF ~FeeFound(cfg, token, chain)
                    THEN Err("missing fee for chain for token", "", token, "", chain, <<>>)
                    ELSE Ok))
       IN IF perToken # Ok THEN perToken
          ELSE FirstError(EnabledTokens(cfg), LAMBDA enabledToken :
                 IF ~Truthy(Get(cfg.fees, enabledToken))
                 THEN Err("missing fee for token", "", enabledToken, "", "", <<>>)
                 ELSE Ok)

\* if (sourceChain === Chain.Ethereum) continue
NeverExempt(sourceChain) == FALSE

ThresholdExempt(sourceChain) == sourceChain = ChainEthereum

CommitTransfersRule(cfg) ==
  IF ~Truthy(Get(cfg, "commitTransfers")) THEN Ok
  ELSE IF validateKeys(<<"minThresholdAmount">>, Keys(cfg.commitTransfers)) # Ok
  THEN validateKeys(<<"minThresholdAmount">>, Keys(cfg.commitTransfers))
  ELSE LET minThresholdAmount == Get(cfg.commitTransfers, "minThresholdAmount")
       IN IF ~IsObject(minThresholdAmount) THEN TypeError
          ELSE IF Len(Keys(minThresholdAmount)) = 0 THEN Ok
          ELSE IF validateKeys(EnabledTokens(cfg), Keys(minThresholdAmount)) # Ok
          THEN validateKeys(EnabledTokens(cfg), Keys(minThresholdAmount))
          ELSE FirstError(EnabledTokens(cfg), LAMBDA token :
            IF ~Truthy(Get(minThresholdAmount, token))
            THEN Err("missing minThresholdAmount config for token", "", token, "", "", <<>>)
            ELSE IF validateKeys(EnabledChains(cfg), Keys(minThresholdAmount[token])) # Ok
            THEN validateKeys(EnabledChains(cfg), Keys(minThresholdAmount[token]))
            ELSE FirstError(Keys(Get(cfg, "routes")), LAMBDA sourceChain :
              IF ThresholdExempt(sourceChain) THEN Ok
              ELSE IF ~Truthy(Get(minThresholdAmount[token], sourceChain))
              THEN Err("missing minThresholdAmount config for token source chain",
                       "", token, sourceChain, "", <<>>)
              ELSE FirstError(Keys(cfg.routes[sourceChain]), LAMBDA destinationChain :
                IF ~Truthy(Get(minThresholdAmount[token][sourceChain], destinationChain))
                THEN Err("missing minThresholdAmount config for token source chain destination chain",
                         "", token, sourceChain, destinationChain, <<>>)
                ELSE Ok)))

BondersRuleNoDestinations(cfg) ==
  IF ~Truthy(Get(cfg, "bonders")) THEN Ok
  ELSE IF ~IsObject(cfg.bonders)
  THEN Err("bonders config should be an object", "", "", "", "", <<>>)
  ELSE IF validateKeys(EnabledTokens(cfg), Keys(cfg.bonders)) # Ok
  THEN validateKeys(EnabledTokens(cfg), Keys(cfg.bonders))
  ELSE FirstError(EnabledTokens(cfg), LAMBDA token :
    IF ~IsObject(Get(cfg.bonders, token))
    THEN Err("bonders config for token should be an object", "", token, "", "", <<>>)
    ELSE validateKeys(EnabledChains(cfg), Keys(cfg.bonders[token])))

BondersRule(cfg) ==
  IF ~Truthy(Get(cfg, "bonders")) THEN Ok
  ELSE IF ~IsObject(cfg.bonders)
  THEN Err("bonders config should be an object", "", "", "", "", <<>>)
  ELSE IF validateKeys(EnabledTokens(cfg), Keys(cfg.bonders)) # Ok
  THEN validateKeys(EnabledTokens(cfg), Keys(cfg.bonders))
  ELSE FirstError(EnabledTokens(cfg), LAMBDA token :
    IF ~IsObject(Get(cfg.bonders, token))
    THEN Err("bonders config for token should be an object", "", token, "", "", <<>>)
    ELSE IF validateKeys(EnabledChains(cfg), Keys(cfg.bonders[token])) # Ok
    THEN validateKeys(EnabledChains(cfg), Keys(cfg.bonders[token]))
    ELSE FirstError(Keys(cfg.bonders[token]), LAMBDA sourceChain :
      IF ~IsObject(cfg.bonders[token][sourceChain])
      THEN Err("bonders config for token.source should be an object",
               "", token, sourceChain, "", <<>>)
      ELSE validateKeys(EnabledChains(cfg), Keys(cfg.bonders[token][sourceChain]))))

VaultRule(cfg) ==
  IF ~Truthy(Get(cfg, "vault")) THEN Ok
  ELSE IF validateKeys(validTokenKeys, Keys(cfg.vault)) # Ok
  THEN validateKeys(validTokenKeys, Keys(cfg.vault))
  ELSE FirstError(Keys(cfg.vault), LAMBDA tokenSymbol :
    IF validateKeys(validChainKeys, Keys(cfg.vault[tokenSymbol])) # Ok
    THEN validateKeys(validChainKeys, Keys(cfg.vault[tokenSymbol]))
    ELSE FirstError(Keys(cfg.vault[tokenSymbol]), LAMBDA chain :
      validateKeys(<<"depositThresholdAmount", "depositAmount", "strategy",
                     "autoWithdraw", "autoDeposit">>,
                   Keys(cfg.vault[tokenSymbol][chain]))))

BlocklistRule(cfg) ==
  IF ~Truthy(Get(cfg, "blocklist")) THEN Ok
  ELSE IF ~IsObject(cfg.blocklist)
  THEN Err("blocklist config must be an object", "", "", "", "", <<>>)
  ELSE validateKeys(<<"path", "addresses">>, Keys(cfg.blocklist))

----------------------------------------------------------------------------
(* validateConfigValues: the rules, in the order of the code *)

\* new URL(rpcUrl) on the strings the model uses: whether it parses, and the
\* protocol and host it yields.
ParseURL(t) ==
  CASE t = "https://rpc.example" -> [ok |-> TRUE, protocol |-> "https:", host |-> "rpc.example"]
    [] t = "http://rpc.example" -> [ok |-> TRUE, protocol |-> "http:", host |-> "rpc.example"]
    [] t = "ftp://rpc.example" -> [ok |-> TRUE, protocol |-> "ftp:", host |-> "rpc.example"]
    [] t = "mailto:ops" -> [ok |-> TRUE, protocol |-> "mailto:", host |-> ""]
    [] OTHER -> [ok |-> FALSE, protocol |-> "", host |-> ""]

\* ethers' getAddress on the strings the model uses: whether it returns (a
\* checksummed or an all-lowercase address) or throws.
ChecksumAddressOk(t) ==
  t \in {"0xAb5801a7D398351b8bE11C439e05C5B3259aeC9B",
         "0xab5801a7d398351b8be11c439e05c5b3259aec9b"}

NetworkRule(chainSlug, chain) ==
  IF ~Truthy(chain) THEN Err("RPC config for chain is required", "", "", "", "", <<>>)
  ELSE LET rpcUrl == Get(chain, "rpcUrl")
           maxGasPrice == Get(chain, "maxGasPrice")
           waitConfirmations == Get(chain, "waitConfirmations")
       IN IF ~Truthy(rpcUrl)
          THEN Err("RPC url for chain is required", "", "", "", chainSlug, <<>>)
          ELSE IF TypeOf(rpcUrl) # "string"
          THEN Err("RPC url for chain must be a string", "", "", "", chainSlug, <<>>)
          ELSE IF ~ParseURL(rpcUrl.str).ok \/ ParseURL(rpcUrl.str).protocol = ""
                  \/ ParseURL(rpcUrl.str).host = ""
                  \/ ~(ParseURL(rpcUrl.str).protocol \in {"http:", "https:"})
          THEN Err("rpc url is invalid", rpcUrl.str, "", "", "", <<>>)
          ELSE IF TypeOf(waitConfirmations) # "undefined" /\ TypeOf(waitConfirmations) # "number"
          THEN Err("waitConfirmations for chain must be a number", "", "", "", chainSlug, <<>>)
          ELSE IF TypeOf(waitConfirmations) = "number" /\ waitConfirmations.num <= 0
          THEN Err("waitConfirmations for chain must be greater than 0", "", "", "", chainSlug, <<>>)
          ELSE IF TypeOf(maxGasPrice) # "undefined" /\ TypeOf(maxGasPrice) # "number"
          THEN Err("maxGasPrice for chain must be a number", "", "", "", chainSlug, <<>>)
          ELSE IF TypeOf(maxGasPrice) = "number" /\ maxGasPrice.num <= 0
          THEN Err("maxGasPrice for chain must be greater than 0", "", "", "", chainSlug, <<>>)
          ELSE Ok

NetworksRule(cfg) ==
  FirstError(Keys(Get(cfg, "networks")), LAMBDA chainSlug :
    NetworkRule(chainSlug, cfg.networks[chainSlug]))

ThresholdValuesRule(cfg, enabledTokens) ==
  IF ~Truthy(Get(cfg, "commitTransfers")) THEN Ok
  ELSE LET minThresholdAmount == Get(cfg.commitTransfers, "minThresholdAmount")
       IN IF ~IsObject(minThresholdAmount) THEN TypeError
          ELSE IF Len(Keys(minThresholdAmount)) = 0 THEN Ok
          ELSE FirstError(enabledTokens, LAMBDA token :
            FirstError(Keys(Get(cfg, "routes")), LAMBDA sourceChain :
              IF sourceChain = ChainEthereum THEN Ok
              ELSE FirstError(Keys(cfg.routes[sourceChain]), LAMBDA destinationChain :
                IF TypeOf(Get(minThresholdAmount, token)) = "undefined" THEN TypeError
                ELSE IF TypeOf(Get(minThresholdAmount[token], sourceChain)) = "undefined"
                THEN TypeError
                ELSE IF TypeOf(Get(minThresholdAmount[token][sourceChain], destinationChain))
                        # "number"
                THEN Err("minThresholdAmount config must be a number",
                         "", token, sourceChain, destinationChain, <<>>)
                ELSE Ok)))

BonderValuesRule(cfg, enabledTokens) ==
  IF ~Truthy(Get(cfg, "bonders")) THEN Ok
  ELSE FirstError(enabledTokens, LAMBDA token :
    FirstError(Keys(Get(cfg.bonders, token)), LAMBDA sourceChain :
      FirstError(Keys(cfg.bonders[token][sourceChain]), LAMBDA destinationChain :
        LET bonderAddress == cfg.bonders[token][sourceChain][destinationChain]
        IN IF TypeOf(bonderAddress) # "string"
           THEN Err("config bonder address should be a string",
                    "", token, sourceChain, destinationChain, <<>>)
           ELSE IF ~ChecksumAddressOk(bonderAddress.str)
           THEN Err("config bonder address is invalid",
                    bonderAddress.str, token, sourceChain, destinationChain, <<>>)
           ELSE Ok)))

VaultEntryRuleNoDepositAmount(chainTokenConfig) ==
  IF TypeOf(Get(chainTokenConfig, "autoDeposit")) # "boolean"
  THEN Err("autoDeposit should be boolean", "autoDeposit", "", "", "", <<>>)
  ELSE IF Truthy(chainTokenConfig.autoDeposit)
          /\ TypeOf(Get(chainTokenConfig, "depositThresholdAmount")) # "number"
  THEN Err("depositThresholdAmount should be a number", "depositThresholdAmount",
           "", "", "", <<>>)
  ELSE IF TypeOf(Get(chainTokenConfig, "autoWithdraw")) # "boolean"
  THEN Err("autoWithdraw should be boolean", "autoWithdraw", "", "", "", <<>>)
  ELSE IF ~(TypeOf(Get(chainTokenConfig, "strategy")) = "string"
            /\ chainTokenConfig.strategy.str \in {"yearn", "aave"})
  THEN Err("strategy is invalid. Valid options are: yearn, aave", "strategy",
           "", "", "", <<>>)
  ELSE Ok

VaultEntryRule(chainTokenConfig) ==
  IF TypeOf(Get(chainTokenConfig, "autoDeposit")) # "boolean"
  THEN Err("autoDeposit should be boolean", "autoDeposit", "", "", "", <<>>)
  ELSE IF Truthy(chainTokenConfig.autoDeposit)
          /\ TypeOf(Get(chainTokenConfig, "depositThresholdAmount")) # "number"
  THEN Err("depositThresholdAmount should be a number", "depositThresholdAmount",
           "", "", "", <<>>)
  ELSE IF Truthy(chainTokenConfig.autoDeposit)
          /\ TypeOf(Get(chainTokenConfig, "depositAmount")) # "number"
  THEN Err("depositAmount should be a number", "depositAmount", "", "", "", <<>>)
  ELSE IF TypeOf(Get(chainTokenConfig, "autoWithdraw")) # "boolean"
  THEN Err("autoWithdraw should be boolean", "autoWithdraw", "", "", "", <<>>)
  ELSE IF ~(TypeOf(Get(chainTokenConfig, "strategy")) = "string"
            /\ chainTokenConfig.strategy.str \in {"yearn", "aave"})
  THEN Err("strategy is invalid. Valid options are: yearn, aave", "strategy",
           "", "", "", <<>>)
  ELSE Ok

VaultValuesRule(cfg) ==
  IF ~Truthy(Get(cfg, "vault")) THEN Ok
  ELSE FirstError(Keys(cfg.vault), LAMBDA tokenSymbol :
    FirstError(Keys(cfg.vault[tokenSymbol]), LAMBDA chain :
      VaultEntryRule(cfg.vault[tokenSymbol][chain])))

BlocklistValuesRule(cfg) ==
  IF Truthy(Get(cfg, "blocklist")) /\ TypeOf(Get(cfg.blocklist, "path")) # "string"
  THEN Err("blocklist.path must be a string", "", "", "", "", <<>>)
  ELSE Ok

----------------------------------------------------------------------------
(* The passes: one action per rule *)

\* What a rule does to the pass: its error is thrown to the caller, which ends
\* the pass; otherwise control falls through to the next rule, and off the end
\* of the function the promise resolves.
\* The error is recorded and the pass goes on to the next rule.
StepKeepGoing(r, next) ==
  /\ pc' = next
  /\ result' = IF r # Ok THEN r
               ELSE IF next = "done" /\ result = Pending THEN Ok
               ELSE result

Step(r, next) ==
  IF r # Ok THEN result' = r /\ pc' = "done"
  ELSE IF next = "done" THEN result' = Ok /\ pc' = "done"
  ELSE pc' = next /\ UNCHANGED result

At(p, rule) == pass = p /\ pc = rule /\ UNCHANGED <<pass, config, enabledTokensG>>

StructureConfig == At("structure", "config") /\ Step(ConfigRule(config), "sections")
StructureSections == At("structure", "sections") /\ Step(SectionsRule(config), "chains")
StructureChains == At("structure", "chains") /\ Step(ChainsRule(config), "tokens")
StructureTokens == At("structure", "tokens") /\ Step(TokensRule(config), "watchers")
StructureWatchers == At("structure", "watchers") /\ Step(WatchersRule(config), "exclusive")
StructureExclusive == At("structure", "exclusive") /\ Step(ExclusiveRule(config), "db")
StructureDb == At("structure", "db") /\ Step(DbRule(config), "logging")
StructureLogging == At("structure", "logging") /\ Step(LoggingRule(config), "keystore")
StructureKeystore == At("structure", "keystore") /\ Step(KeystoreRule(config), "signer")
StructureSigner == At("structure", "signer") /\ Step(SignerRule(config), "metrics")
StructureMetrics == At("structure", "metrics") /\ Step(MetricsRule(config), "addresses")
StructureAddresses == At("structure", "addresses") /\ Step(AddressesRule(config), "routes")
StructureRoutes == At("structure", "routes") /\ Step(RoutesRule(config), "fees")
StructureFees == At("structure", "fees") /\ Step(FeesRule(config), "commitTransfers")
StructureCommitTransfers ==
  At("structure", "commitTransfers") /\ Step(CommitTransfersRule(config), "bonders")
StructureBonders == At("structure", "bonders") /\ Step(BondersRule(config), "vault")
StructureVault == At("structure", "vault") /\ Step(VaultRule(config), "blocklist")
StructureBlocklist == At("structure", "blocklist") /\ Step(BlocklistRule(config), "done")

validateConfigFileStructure ==
  \/ StructureConfig \/ StructureSections \/ StructureChains \/ StructureTokens
  \/ StructureWatchers \/ StructureExclusive \/ StructureDb \/ StructureLogging
  \/ StructureKeystore \/ StructureSigner \/ StructureMetrics \/ StructureAddresses
  \/ StructureRoutes \/ StructureFees \/ StructureCommitTransfers \/ StructureBonders
  \/ StructureVault \/ StructureBlocklist

ValuesConfig == At("values", "config") /\ Step(ConfigRule(config), "networks")
ValuesNetworks == At("values", "networks") /\ Step(NetworksRule(config), "commitTransfers")
ValuesCommitTransfers ==
  At("values", "commitTransfers")
  /\ Step(ThresholdValuesRule(config, enabledTokensG), "bonders")
ValuesBonders ==
  At("values", "bonders") /\ Step(BonderValuesRule(config, enabledTokensG), "vault")
ValuesVault == At("values", "vault") /\ Step(VaultValuesRule(config), "blocklist")
ValuesBlocklist == At("values", "blocklist") /\ Step(BlocklistValuesRule(config), "done")

validateConfigValues ==
  \/ ValuesConfig \/ ValuesNetworks \/ ValuesCommitTransfers \/ ValuesBonders
  \/ ValuesVault \/ ValuesBlocklist

----------------------------------------------------------------------------
(* The inputs: a reference configuration that both passes accept, and every   *)
(* configuration that differs from it in at most MaxEdits sections, each      *)
(* edited section taking one of the values listed for it (Undefined: the      *)
(* section is absent).                                                        *)

MaxEdits == 2

On == Bool(TRUE)
Off == Bool(FALSE)
Rpc == [rpcUrl |-> Str("https://rpc.example")]
GoodAddress == Str("0xAb5801a7D398351b8bE11C439e05C5B3259aeC9B")
LowerAddress == Str("0xab5801a7d398351b8be11c439e05c5b3259aec9b")
BadAddress == Str("0xab5801a7D398351b8bE11C439e05C5B3259aeC9B")
BothRoutes == [ethereum |-> [optimism |-> On], optimism |-> [ethereum |-> On]]

FileSections ==
  {"network", "chains", "sync", "tokens", "commitTransfers", "bondWithdrawals",
   "settleBondedWithdrawals", "watchers", "db", "logging", "keystore",
   "addresses", "metrics", "fees", "routes", "bonders", "signer", "vault",
   "blocklist", "foo"}

RefFile(section) ==
  CASE section = "chains" -> [ethereum |-> Rpc, optimism |-> Rpc]
    [] section = "tokens" -> [USDC |-> On]
    [] section = "watchers" -> [bondWithdrawal |-> On]
    [] section = "keystore" -> [location |-> Str("~/.hop/keystore.json")]
    [] section = "routes" -> BothRoutes
    [] section = "fees" -> [USDC |-> [ethereum |-> Num(1), optimism |-> Num(1)]]
    [] section = "commitTransfers" ->
         [minThresholdAmount |-> [USDC |-> [optimism |-> [ethereum |-> Num(1)]]]]
    [] OTHER -> Undefined

FileOptions(section) ==
  CASE section = "network" -> << Str("mainnet") >>
    [] section = "sync" -> << EmptyObject >>
    [] section = "bondWithdrawals" -> << EmptyObject >>
    [] section = "settleBondedWithdrawals" -> << EmptyObject >>
    [] section = "foo" -> << EmptyObject >>
    [] section = "chains" ->
         << Undefined,
            [optimism |-> Rpc],
            [ethereum |-> Rpc],
            [fantom |-> Rpc],
            [ethereum |-> Rpc, optimism |-> Rpc, fantom |-> Rpc],
            [ethereum |-> [rpcUrl |-> Str("https://rpc.example"), foo |-> Num(1)],
             optimism |-> Rpc],
            [ethereum |-> Rpc,
             optimism |-> [rpcUrl |-> Str("https://rpc.example"), maxGasPrice |-> Num(1)]] >>
    [] section = "tokens" ->
         << Undefined,
            EmptyObject,
            [USDC |-> Off],
            [USDC |-> On, DAI |-> On],
            [USDC |-> On, DAI |-> Off],
            [USDC |-> On, FAKE |-> Off],
            [USDC |-> On, FAKE |-> On] >>
    [] section = "watchers" ->
         << Undefined, EmptyObject, [bondWithdrawal |-> On, foo |-> On] >>
    [] section = "db" ->
         << [location |-> Str("/db")], [location |-> Str("/db"), foo |-> Num(1)] >>
    [] section = "logging" ->
         << [level |-> Str("debug")], [level |-> Str("verbose")], [level |-> Str("")],
            [foo |-> Str("debug")] >>
    [] section = "keystore" ->
         << Undefined, EmptyObject, [location |-> Str("k"), pass |-> Str("p")],
            [location |-> Str("k"), foo |-> Str("p")] >>
    [] section = "signer" ->
         << EmptyObject, [type |-> Str("kms"), keyId |-> Str("id")],
            [type |-> Str("kms"), foo |-> Str("id")] >>
    [] section = "metrics" ->
         << [enabled |-> On, port |-> Num(1)], [enabled |-> On, foo |-> Num(1)] >>
    [] section = "addresses" ->
         << [location |-> Str("/a")], [foo |-> Str("/a")] >>
    [] section = "routes" ->
         << Undefined,
            EmptyObject,
            [ethereum |-> [optimism |-> On]],
            [optimism |-> [ethereum |-> On]],
            [ethereum |-> EmptyObject],
            [ethereum |-> [optimism |-> On], optimism |-> [ethereum |-> On, optimism |-> On]],
            [fantom |-> [ethereum |-> On]],
            [optimism |-> [fantom |-> On]] >>
    [] section = "fees" ->
         << Undefined,
            EmptyObject,
            [USDC |-> EmptyObject],
            [USDC |-> [ethereum |-> Num(1)]],
            [USDC |-> [optimism |-> Num(1)]],
            [USDC |-> [ethereum |-> Num(1), optimism |-> Num(0)]],
            [USDC |-> [ethereum |-> Num(0), optimism |-> Num(1)]],
            [USDC |-> [ethereum |-> Num(1), optimism |-> Num(1), fantom |-> Num(1)]],
            [DAI |-> [ethereum |-> Num(1), optimism |-> Num(1)]],
            [USDC |-> [ethereum |-> Num(1), optimism |-> Num(1)],
             DAI |-> [ethereum |-> Num(1), optimism |-> Num(1)]],
            [USDC |-> [ethereum |-> Num(1), optimism |-> Num(1)],
             DAI |-> [ethereum |-> Num(1)]] >>
    [] section = "commitTransfers" ->
         << Undefined,
            EmptyObject,
            [minThresholdAmount |-> EmptyObject],
            [minThresholdAmount |-> EmptyObject, foo |-> Num(1)],
            [minThresholdAmount |-> [USDC |-> EmptyObject]],
            [minThresholdAmount |-> [USDC |-> [optimism |-> EmptyObject]]],
            [minThresholdAmount |-> [USDC |-> [optimism |-> [ethereum |-> Num(0)]]]],
            [minThresholdAmount |-> [USDC |-> [optimism |-> [optimism |-> Num(1)]]]],
            [minThresholdAmount |->
               [USDC |-> [ethereum |-> [optimism |-> Num(1)],
                          optimism |-> [ethereum |-> Num(1)]]]],
            [minThresholdAmount |->
               [USDC |-> [optimism |-> [ethereum |-> Num(1), optimism |-> Num(1)]]]],
            [minThresholdAmount |-> [USDC |-> [fantom |-> [ethereum |-> Num(1)]]]],
            [minThresholdAmount |-> [DAI |-> [optimism |-> [ethereum |-> Num(1)]]]],
            [minThresholdAmount |->
               [USDC |-> [optimism |-> [ethereum |-> Num(1)]],
                DAI |-> [optimism |-> [ethereum |-> Num(0)]]]] >>
    [] section = "bonders" ->
         << GoodAddress,
            EmptyObject,
            [USDC |-> GoodAddress],
            [USDC |-> EmptyObject],
            [USDC |-> [ethereum |-> GoodAddress]],
            [USDC |-> [ethereum |-> [optimism |-> GoodAddress]]],
            [USDC |-> [ethereum |-> [optimism |-> GoodAddress],
                       optimism |-> [ethereum |-> GoodAddress]]],
            [USDC |-> [fantom |-> [optimism |-> GoodAddress]]],
            [USDC |-> [ethereum |-> [fantom |-> GoodAddress]]],
            [DAI |-> EmptyObject],
            [USDC |-> [ethereum |-> [optimism |-> GoodAddress]], DAI |-> EmptyObject] >>
    [] section = "vault" ->
         << EmptyObject,
            [USDC |-> [optimism |-> [strategy |-> Str("yearn"), autoDeposit |-> Off,
                                     autoWithdraw |-> Off]]],
            [DAI |-> [ethereum |-> [depositThresholdAmount |-> Num(1),
                                    depositAmount |-> Num(1)]]],
            [USDC |-> [optimism |-> [strategy |-> Str("yearn"), foo |-> Off]]],
            [USDC |-> [fantom |-> EmptyObject]],
            [FAKE |-> EmptyObject] >>
    [] section = "blocklist" ->
         << Str("/blocklist"), [path |-> Str("/blocklist")],
            [path |-> Str("/blocklist"), addresses |-> EmptyObject],
            [path |-> Str("/blocklist"), foo |-> EmptyObject] >>
    [] OTHER -> << >>

\* The inputs of the value pass: the sections of the resolved configuration it
\* reads, and what getEnabledTokens() returns.
ValueSections ==
  {"networks", "commitTransfers", "routes", "bonders", "vault", "blocklist",
   "getEnabledTokens"}

FullVault ==
  [autoDeposit |-> On, depositThresholdAmount |-> Num(1), depositAmount |-> Num(1),
   autoWithdraw |-> Off, strategy |-> Str("yearn")]

RefValues(section) ==
  CASE section = "networks" ->
         [ethereum |-> Rpc,
          optimism |-> [rpcUrl |-> Str("http://rpc.example"), maxGasPrice |-> Num(1),
                        waitConfirmations |-> Num(1)]]
    [] section = "routes" -> BothRoutes
    [] section = "commitTransfers" ->
         [minThresholdAmount |-> [USDC |-> [optimism |-> [ethereum |-> Num(1)]]]]
    [] section = "bonders" -> [USDC |-> [ethereum |-> [optimism |-> GoodAddress]]]
    [] section = "vault" -> [USDC |-> [optimism |-> FullVault]]
    [] section = "blocklist" -> [path |-> Str("/blocklist")]
    [] section = "getEnabledTokens" -> << "USDC" >>
    [] OTHER -> Undefined

\* One vault entry for every combination of its five fields.
VaultEntries ==
  { [k \in {f \in DOMAIN e : TypeOf(e[f]) # "undefined"} |-> e[k]] :
      e \in [autoDeposit : {Undefined, On, Off},
             depositThresholdAmount : {Undefined, Num(1)},
             depositAmount : {Undefined, Num(1)},
             autoWithdraw : {Undefined, On},
             strategy : {Undefined, Str("aave"), Str("compound")}] }

RECURSIVE SetToSeq(_)
SetToSeq(S) ==
  IF S = {} THEN << >>
  ELSE LET x == CHOOSE x \in S : TRUE IN << x >> \o SetToSeq(S \ {x})

ValueOptions(section) ==
  CASE section = "networks" ->
         << Undefined,
            [ethereum |-> Undefined],
            [ethereum |-> EmptyObject],
            [ethereum |-> [rpcUrl |-> Num(1)]],
            [ethereum |-> [rpcUrl |-> Str("ftp://rpc.example")]],
            [ethereum |-> [rpcUrl |-> Str("mailto:ops")]],
            [ethereum |-> [rpcUrl |-> Str("rpc.example")]],
            [ethereum |-> Rpc, optimism |-> [rpcUrl |-> Str("rpc.example")]],
            [ethereum |-> [rpcUrl |-> Str("https://rpc.example"),
                           waitConfirmations |-> Str("1")]],
            [ethereum |-> [rpcUrl |-> Str("https://rpc.example"),
                           waitConfirmations |-> Num(0)]],
            [ethereum |-> [rpcUrl |-> Str("https://rpc.example"),
                           maxGasPrice |-> Str("1")]],
            [ethereum |-> [rpcUrl |-> Str("https://rpc.example"),
                           maxGasPrice |-> Num(0), waitConfirmations |-> Num(0)]] >>
    [] section = "routes" ->
         << Undefined,
            EmptyObject,
            [ethereum |-> [optimism |-> On]],
            [optimism |-> [ethereum |-> On, optimism |-> On]] >>
    [] section = "commitTransfers" ->
         << Undefined,
            EmptyObject,
            [minThresholdAmount |-> EmptyObject],
            [minThresholdAmount |-> [USDC |-> EmptyObject]],
            [minThresholdAmount |-> [USDC |-> [optimism |-> EmptyObject]]],
            [minThresholdAmount |-> [USDC |-> [optimism |-> [ethereum |-> Str("1")]]]],
            [minThresholdAmount |-> [USDC |-> [optimism |-> [ethereum |-> Num(0)]]]],
            [minThresholdAmount |-> [DAI |-> [optimism |-> [ethereum |-> Num(1)]]]] >>
    [] section = "bonders" ->
         << Undefined,
            EmptyObject,
            [USDC |-> EmptyObject],
            [USDC |-> [ethereum |-> [optimism |-> LowerAddress],
                       optimism |-> [ethereum |-> GoodAddress]]],
            [USDC |-> [ethereum |-> [optimism |-> Num(1)]]],
            [USDC |-> [ethereum |-> [optimism |-> BadAddress]]],
            [USDC |-> [ethereum |-> [optimism |-> Str("bonder")]]],
            [DAI |-> [ethereum |-> [optimism |-> BadAddress]]] >>
    [] section = "vault" ->
         << Undefined, EmptyObject,
            [USDC |-> [optimism |-> FullVault],
             DAI |-> [ethereum |-> [autoDeposit |-> On]]],
            [USDC |-> [optimism |-> [FullVault EXCEPT !.autoDeposit = Str("true")]]],
            [USDC |-> [optimism |-> [FullVault EXCEPT !.depositAmount = Str("1")]]],
            [USDC |-> [optimism |-> [FullVault EXCEPT !.depositThresholdAmount = Str("1")]]],
            [USDC |-> [optimism |-> [FullVault EXCEPT !.autoWithdraw = Num(0)]]],
            [USDC |-> [optimism |-> [FullVault EXCEPT !.strategy = Num(1)]]] >>
         \o SetToSeq({[USDC |-> [optimism |-> e]] : e \in VaultEntries})
    [] section = "blocklist" ->
         << Undefined, EmptyObject, [path |-> Num(1)] >>
    [] section = "getEnabledTokens" -> << << >>, << "USDC", "DAI" >> >>
    [] OTHER -> << >>

\* The subsets of S with at most k elements.
RECURSIVE SubsetsUpTo(_, _)
SubsetsUpTo(S, k) ==
  IF k = 0 \/ S = {} THEN {{}}
  ELSE LET x == CHOOSE x \in S : TRUE
       IN SubsetsUpTo(S \ {x}, k) \cup {U \cup {x} : U \in SubsetsUpTo(S \ {x}, k - 1)}

\* For the sections in E, one option each (by its index; count[x] options for x).
RECURSIVE Choices(_, _)
Choices(E, count) ==
  IF E = {} THEN {EmptyObject}
  ELSE LET x == CHOOSE x \in E : TRUE
       IN {c @@ (x :> i) : c \in Choices(E \ {x}, count), i \in 1..count[x]}

\* The reference's sections, those in the choice c replaced.
Edited(ref, options, c) ==
  [x \in DOMAIN ref |-> IF x \in DOMAIN c THEN options[x][c[x]] ELSE ref[x]]

\* The object of the sections that are not undefined.
Present(sections, all) ==
  [x \in {y \in sections : TypeOf(all[y]) # "undefined"} |-> all[x]]

FileRef == [x \in FileSections |-> RefFile(x)]
FileChoice == [x \in FileSections |-> FileOptions(x)]
FileCount == [x \in FileSections |-> Len(FileChoice[x])]

ValueRef == [x \in ValueSections |-> RefValues(x)]
ValueChoice == [x \in ValueSections |-> ValueOptions(x)]
ValueCount == [x \in ValueSections |-> Len(ValueChoice[x])]

----------------------------------------------------------------------------
(* The specification *)

InitStructure ==
  /\ pass = "structure"
  /\ \/ \E E \in SubsetsUpTo(FileSections, MaxEdits) : \E c \in Choices(E, FileCount) :
          config = Present(FileSections, Edited(FileRef, FileChoice, c))
     \/ config \in {Undefined, Str("config.json")}
  /\ enabledTokensG = << >>

InitValues ==
  /\ pass = "values"
  /\ \/ \E E \in SubsetsUpTo(ValueSections, MaxEdits) : \E c \in Choices(E, ValueCount) :
          LET all == Edited(ValueRef, ValueChoice, c)
          IN /\ config = Present(ValueSections \ {"getEnabledTokens"}, all)
             /\ enabledTokensG = all["getEnabledTokens"]
     \/ /\ config \in {Undefined, Str("config.json")}
        /\ enabledTokensG = << "USDC" >>

Init ==
  /\ InitStructure \/ InitValues
  /\ pc = "config"
  /\ result = Pending

Next == validateConfigFileStructure \/ validateConfigValues

Spec == Init /\ [][Next]_vars

----------------------------------------------------------------------------
(* What the claims speak of, stated on the configuration itself *)

Done == pc = "done"
Accepted == pc = "done" /\ result = Ok
Rejected == pc = "done" /\ result # Ok
Structure == pass = "structure"
Values == pass = "values"

KeySet(o) == IF IsObject(o) THEN DOMAIN o ELSE {}
Section(name) == Get(config, name)
HasSection(name) == name \in KeySet(config)

\* The tokens whose toggle in the tokens section is truthy.
EnabledTokenSet == {t \in KeySet(Section("tokens")) : Truthy(Section("tokens")[t])}
EnabledChainSet == KeySet(Section("chains"))

\* The declared routes, as pairs <<source, destination>>.
Routes ==
  UNION { {<<x, d>> : d \in KeySet(Section("routes")[x])} : x \in KeySet(Section("routes")) }
RouteDestinations == {r[2] : r \in Routes}

\* Whether the entry at path (a sequence of keys) exists in the object o.
RECURSIVE HasPath(_, _)
HasPath(o, path) ==
  \/ path = << >>
  \/ /\ Head(path) \in KeySet(o)
     /\ HasPath(o[Head(path)], Tail(path))

RECURSIVE AtPath(_, _)
AtPath(o, path) ==
  IF path = << >> THEN o
  ELSE IF Head(path) \in KeySet(o) THEN AtPath(o[Head(path)], Tail(path))
  ELSE Undefined

\* The object o without the key k of the object at path.
RECURSIVE Without(_, _, _)
Without(o, path, k) ==
  IF path = << >> THEN [x \in DOMAIN o \ {k} |-> o[x]]
  ELSE [o EXCEPT ![Head(path)] = Without(o[Head(path)], Tail(path), k)]

----------------------------------------------------------------------------
(* C1: fee-matrix completeness *)

\* C1, as claimed: whenever the structural pass accepts, a fee entry exists for
\* every enabled token and every destination chain that appears in routes.
C1_FeeMatrixComplete ==
  (Structure /\ Accepted) =>
    \A t \in EnabledTokenSet : \A d \in RouteDestinations :
      HasPath(Section("fees"), <<t, d>>)

\* C1, amended: whenever the structural pass accepts a configuration that has a
\* fees section, a fee entry exists for every enabled token and every
\* destination chain that appears in routes; and a missing-fee error that names
\* a token and a chain names an enabled token and a route destination whose fee
\* entry is missing or falsy.
C1_FeeMatrixCompleteWhenFeesPresent ==
  /\ (Structure /\ Accepted /\ HasSection("fees")) =>
       \A t \in EnabledTokenSet : \A d \in RouteDestinations :
         HasPath(Section("fees"), <<t, d>>)
  /\ (Structure /\ Done /\ result.kind = "missing fee for chain for token") =>
       /\ HasSection("fees")
       /\ result.token \in EnabledTokenSet
       /\ result.chain \in RouteDestinations
       /\ ~Truthy(AtPath(Section("fees"), <<result.token, result.chain>>))

\* The spec's scenario: fees.USDC.optimism removed, the error names USDC and optimism.
C1_Witness ==
  /\ Structure /\ Done
  /\ result.kind = "missing fee for chain for token"
  /\ result.token = "USDC" /\ result.chain = "optimism"
  /\ HasPath(Section("fees"), <<"USDC">>)
  /\ ~HasPath(Section("fees"), <<"USDC", "optimism">>)
  /\ <<"ethereum", "optimism">> \in Routes

----------------------------------------------------------------------------
(* C2: threshold-matrix completeness, base chain exempt *)

ThresholdsNonEmpty ==
  KeySet(Get(Section("commitTransfers"), "minThresholdAmount")) # {}

Thresholds == Get(Section("commitTransfers"), "minThresholdAmount")

\* C2: when minThresholdAmount is non-empty the structural pass accepts only if
\* an entry exists at [token][source][destination] for every enabled token and
\* every route whose source is not the base chain; and no missing-threshold
\* error is ever raised for a source chain that is the base chain.
C2_ThresholdMatrixComplete ==
  /\ (Structure /\ Accepted /\ ThresholdsNonEmpty) =>
       \A t \in EnabledTokenSet : \A r \in Routes :
         r[1] # ChainEthereum => HasPath(Thresholds, <<t, r[1], r[2]>>)
  /\ (Structure /\ Done
      /\ result.kind \in
           {"missing minThresholdAmount config for token source chain",
            "missing minThresholdAmount config for token source chain destination chain"}) =>
       /\ result.source # ChainEthereum
       /\ result.source \in KeySet(Section("routes"))
       /\ result.token \in EnabledTokenSet

\* Accepted with a base-chain-sourced route that has no threshold entry, next to
\* a route from another chain that has one.
C2_Witness ==
  /\ Structure /\ Accepted /\ ThresholdsNonEmpty
  /\ <<"ethereum", "optimism">> \in Routes
  /\ <<"optimism", "ethereum">> \in Routes
  /\ "USDC" \in EnabledTokenSet
  /\ ~HasPath(Thresholds, <<"USDC", "ethereum", "optimism">>)
  /\ HasPath(Thresholds, <<"USDC", "optimism", "ethereum">>)

----------------------------------------------------------------------------
(* C3: credential exclusivity *)

\* C3: no configuration that carries both a keystore section and a signer
\* section is accepted by the structural pass.
C3_KeystoreSignerExclusive ==
  (Structure /\ Done /\ HasSection("keystore") /\ HasSection("signer")) => result # Ok

\* Both sections present, each with recognized keys only: the exclusivity error.
C3_Witness ==
  /\ Structure /\ Done
  /\ HasSection("keystore") /\ HasSection("signer")
  /\ result.kind = "You cannot have both a keystore and a signer"

----------------------------------------------------------------------------
(* C4: acceptance and the allow-lists *)

Allowed(o, valid) == KeySet(o) \subseteq valid

\* Every section name and every nested key belongs to the allow-list of its level.
AllKeysAllowed ==
  /\ Allowed(config, Range(validSectionKeys))
  /\ Allowed(Section("chains"), Range(validChainKeys))
  /\ \A c \in EnabledChainSet : Allowed(Section("chains")[c], {"rpcUrl", "maxGasPrice"})
  /\ EnabledTokenSet \subseteq Range(validTokenKeys)
  /\ Allowed(Section("watchers"), Range(validWatcherKeys))
  /\ Allowed(Section("db"), {"location"})
  /\ Allowed(Section("logging"), {"level"})
  /\ Allowed(Section("keystore"),
             {"location", "pass", "passwordFile", "parameterStore", "awsRegion"})
  /\ Allowed(Section("signer"), {"type", "keyId", "awsRegion", "lambdaFunctionName"})
  /\ Allowed(Section("metrics"), {"enabled", "port"})
  /\ Allowed(Section("addresses"), {"location"})
  /\ \A r \in Routes : r[1] \in EnabledChainSet /\ r[2] \in EnabledChainSet
  /\ Allowed(Section("routes"), EnabledChainSet)
  /\ Allowed(Section("fees"), EnabledTokenSet)
  /\ \A t \in KeySet(Section("fees")) : Allowed(Section("fees")[t], EnabledChainSet)
  /\ Allowed(Section("commitTransfers"), {"minThresholdAmount"})
  /\ Allowed(Thresholds, EnabledTokenSet)
  /\ \A t \in KeySet(Thresholds) : Allowed(Thresholds[t], EnabledChainSet)
  /\ Allowed(Section("bonders"), EnabledTokenSet)
  /\ \A t \in KeySet(Section("bonders")) :
       /\ Allowed(Section("bonders")[t], EnabledChainSet)
       /\ \A x \in KeySet(Section("bonders")[t]) :
            Allowed(Section("bonders")[t][x], EnabledChainSet)
  /\ Allowed(Section("vault"), Range(validTokenKeys))
  /\ \A t \in KeySet(Section("vault")) :
       /\ Allowed(Section("vault")[t], Range(validChainKeys))
       /\ \A c \in KeySet(Section("vault")[t]) :
            Allowed(Section("vault")[t][c],
                    {"depositThresholdAmount", "depositAmount", "strategy",
                     "autoWithdraw", "autoDeposit"})
  /\ Allowed(Section("blocklist"), {"path", "addresses"})

\* C4, as claimed: the structural pass accepts a configuration if and only if
\* every section name and every nested key belongs to its allow-list.
C4_AcceptsIffAllowListed ==
  (Structure /\ Done /\ IsObject(config)) => (result = Ok <=> AllKeysAllowed)

\* C4, amended: the structural pass accepts a configuration only if every
\* section name and every nested key belongs to its allow-list (a configuration
\* whose keys are all allow-listed may still be rejected by another rule).
C4_AcceptsOnlyAllowListed ==
  (Structure /\ Accepted) => AllKeysAllowed

\* A configuration with an out-of-list key behind a recognized one, rejected.
C4_Witness ==
  /\ Structure /\ Rejected
  /\ result.kind = "unrecognized key" /\ result.key = "foo"
  /\ ~AllKeysAllowed
  /\ Allowed(config, Range(validSectionKeys))

----------------------------------------------------------------------------
(* C5: the bonder matrix *)

SaidEnabledTokens == IF Structure THEN EnabledTokenSet ELSE Range(enabledTokensG)

\* C5, as claimed: whenever validation accepts a configuration with a bonders
\* section, a bonder entry exists for every enabled token and every declared route.
C5_BonderMatrixComplete ==
  (Accepted /\ HasSection("bonders")) =>
    \A t \in SaidEnabledTokens : \A r \in Routes :
      HasPath(Section("bonders"), <<t, r[1], r[2]>>)

\* C5, amended: whenever the structural pass accepts a configuration with a
\* bonders section, that section is an object whose keys are enabled tokens,
\* with an object for every enabled token whose keys are enabled chains, each
\* an object whose keys are enabled chains; whenever the value pass accepts,
\* every bonder entry that is present for an enabled token is a string that
\* passes the address checksum. Entries for declared routes need not exist.
C5_BonderMatrixWellFormed ==
  /\ (Structure /\ Accepted /\ HasSection("bonders")) =>
       /\ IsObject(Section("bonders"))
       /\ Allowed(Section("bonders"), EnabledTokenSet)
       /\ \A t \in EnabledTokenSet :
            /\ HasPath(Section("bonders"), <<t>>)
            /\ IsObject(Section("bonders")[t])
            /\ Allowed(Section("bonders")[t], EnabledChainSet)
            /\ \A x \in KeySet(Section("bonders")[t]) :
                 /\ IsObject(Section("bonders")[t][x])
                 /\ Allowed(Section("bonders")[t][x], EnabledChainSet)
  /\ (Values /\ Accepted /\ HasSection("bonders")) =>
       \A t \in Range(enabledTokensG) :
         \A x \in KeySet(Get(Section("bonders"), t)) :
           \A d \in KeySet(Section("bonders")[t][x]) :
             /\ TypeOf(Section("bonders")[t][x][d]) = "string"
             /\ ChecksumAddressOk(Section("bonders")[t][x][d].str)

\* Accepted by the structural pass with a bonder entry for one declared route
\* and none for another.
C5_Witness ==
  /\ Structure /\ Accepted /\ HasSection("bonders")
  /\ "USDC" \in EnabledTokenSet
  /\ <<"optimism", "ethereum">> \in Routes
  /\ <<"ethereum", "optimism">> \in Routes
  /\ HasPath(Section("bonders"), <<"USDC", "ethereum", "optimism">>)
  /\ ~HasPath(Section("bonders"), <<"USDC", "optimism", "ethereum">>)

----------------------------------------------------------------------------
(* C6: closed enumerations *)

\* C6: the structural pass rejects every configuration that enables a token
\* outside the token enumeration and every configuration whose chains section
\* has a chain outside the chain enumeration; the token rule looks at enabled
\* tokens only, so it passes exactly when every enabled token is in the
\* enumeration, whatever the keys with a falsy toggle are.
C6_ClosedEnumerations ==
  /\ (Structure /\ Done /\ ~(EnabledTokenSet \subseteq Range(validTokenKeys))) => result # Ok
  /\ (Structure /\ Done /\ ~(EnabledChainSet \subseteq Range(validChainKeys))) => result # Ok
  /\ (Structure /\ IsObject(Section("tokens"))) =>
       (TokensRule(config) = Ok <=> EnabledTokenSet \subseteq Range(validTokenKeys))

\* Accepted with a token outside the enumeration whose toggle is falsy.
C6_Witness ==
  /\ Structure /\ Accepted
  /\ "FAKE" \in KeySet(Section("tokens"))
  /\ ~("FAKE" \in EnabledTokenSet)
  /\ ~Includes(validTokenKeys, "FAKE")

----------------------------------------------------------------------------
(* C7: the base chain is mandatory *)

\* C7: the structural pass rejects every configuration whose chains section
\* does not contain the base chain: the chains rule itself throws the
\* base-chain error, whatever the other sections are.
C7_BaseChainRequired ==
  /\ (Structure /\ Done /\ ~(ChainEthereum \in EnabledChainSet)) => result # Ok
  /\ (Structure /\ IsObject(Section("chains")) /\ ~(ChainEthereum \in EnabledChainSet)) =>
       ChainsRule(config) = Err("config for chain is required", "", "", "", ChainEthereum, <<>>)

\* A chains section without the base chain, everything else valid: the
\* base-chain error.
C7_Witness ==
  /\ Structure /\ Rejected
  /\ IsObject(Section("chains")) /\ EnabledChainSet # {}
  /\ ~(ChainEthereum \in EnabledChainSet)
  /\ result.kind = "config for chain is required" /\ result.chain = ChainEthereum

----------------------------------------------------------------------------
(* C8: the vault rule of the value pass *)

VaultEntriesOf ==
  UNION { {Section("vault")[t][c] : c \in KeySet(Section("vault")[t])} :
          t \in KeySet(Section("vault")) }

IsNumber(v) == TypeOf(v) = "number"
IsBoolean(v) == TypeOf(v) = "boolean"

\* C8: the value pass accepts only if every vault entry has boolean autoDeposit
\* and autoWithdraw, one of the two strategies and, when autoDeposit is true,
\* numeric depositThresholdAmount and depositAmount; an entry with autoDeposit
\* true, a numeric threshold and no depositAmount fails with the depositAmount
\* error; with autoDeposit false the amounts are not looked at.
C8_VaultAutoDeposit ==
  /\ (Values /\ Accepted) =>
       \A e \in VaultEntriesOf :
         /\ IsBoolean(Get(e, "autoDeposit"))
         /\ IsBoolean(Get(e, "autoWithdraw"))
         /\ Get(e, "strategy") \in {Str("yearn"), Str("aave")}
         /\ Truthy(Get(e, "autoDeposit")) =>
              IsNumber(Get(e, "depositThresholdAmount")) /\ IsNumber(Get(e, "depositAmount"))
  /\ Values =>
       \A e \in VaultEntriesOf :
         /\ (Get(e, "autoDeposit") = On /\ IsNumber(Get(e, "depositThresholdAmount"))
             /\ ~HasPath(e, <<"depositAmount">>)) =>
              VaultEntryRule(e).kind = "depositAmount should be a number"
         /\ (Get(e, "autoDeposit") = Off /\ IsBoolean(Get(e, "autoWithdraw"))
             /\ Get(e, "strategy") \in {Str("yearn"), Str("aave")}) =>
              VaultEntryRule(e) = Ok
  /\ (Values /\ Done /\ result.kind \in {"depositAmount should be a number",
                                         "depositThresholdAmount should be a number"}) =>
       \E e \in VaultEntriesOf : Get(e, "autoDeposit") = On

\* The spec's scenario: vault.USDC.optimism.autoDeposit = true, depositAmount missing.
C8_Witness ==
  /\ Values /\ Rejected
  /\ result.kind = "depositAmount should be a number" /\ result.key = "depositAmount"
  /\ AtPath(Section("vault"), <<"USDC", "optimism", "autoDeposit">>) = On
  /\ ~HasPath(Section("vault"), <<"USDC", "optimism", "depositAmount">>)

----------------------------------------------------------------------------
(* C9: fail-fast *)

\* What each rule of the pass throws on the configuration, in the order of the code.
RuleResults ==
  IF Structure
  THEN << ConfigRule(config), SectionsRule(config), ChainsRule(config), TokensRule(config),
          WatchersRule(config), ExclusiveRule(config), DbRule(config), LoggingRule(config),
          KeystoreRule(config), SignerRule(config), MetricsRule(config),
          AddressesRule(config), RoutesRule(config), FeesRule(config),
          CommitTransfersRule(config), BondersRule(config), VaultRule(config),
          BlocklistRule(config) >>
  ELSE << ConfigRule(config), NetworksRule(config),
          ThresholdValuesRule(config, enabledTokensG),
          BonderValuesRule(config, enabledTokensG), VaultValuesRule(config),
          BlocklistValuesRule(config) >>

\* The error of the first rule of the sequence q that throws.
EarliestOf(q) ==
  LET violated == {i \in 1..Len(q) : q[i] # Ok}
  IN IF violated = {} THEN Ok
     ELSE q[CHOOSE i \in violated : \A j \in violated : i <= j]

EarliestError == EarliestOf(RuleResults)

NumberViolated(q) == Cardinality({i \in 1..Len(q) : q[i] # Ok})

\* C9: a pass ends with exactly one outcome, the error of the earliest violated
\* rule in the order of the code (or success when no rule is violated); once an
\* error is surfaced the pass is over and the outcome never changes; the
\* configuration is never modified.
C9_FailFast ==
  /\ [](Done => result = EarliestError)
  /\ [](result # Pending => Done)
  /\ [][/\ config' = config
        /\ enabledTokensG' = enabledTokensG
        /\ result # Pending => (result' = result /\ pc' = pc)]_vars

\* A configuration that violates two rules or more, rejected.
C9_Witness ==
  /\ Rejected
  /\ NumberViolated(RuleResults) >= 2

----------------------------------------------------------------------------
(* C10: existence is truthiness *)

\* C10: the structural pass never accepts a configuration in which a required
\* fee entry or a required threshold entry is falsy (0 included); and where a
\* required entry is present with a falsy value, the fee rule and the threshold
\* rule throw the very error they throw with the entry removed.
C10_FalsyEntryIsMissing ==
  /\ (Structure /\ Accepted /\ HasSection("fees")) =>
       \A t \in EnabledTokenSet : \A d \in RouteDestinations :
         Truthy(AtPath(Section("fees"), <<t, d>>))
  /\ (Structure /\ Accepted /\ ThresholdsNonEmpty) =>
       \A t \in EnabledTokenSet : \A r \in Routes :
         r[1] # ChainEthereum => Truthy(AtPath(Thresholds, <<t, r[1], r[2]>>))
  /\ (Structure /\ pc = "fees") =>
       \A t \in KeySet(Section("fees")) : \A d \in RouteDestinations :
         (HasPath(config.fees, <<t, d>>) /\ ~Truthy(config.fees[t][d])) =>
           /\ FeesRule(config) # Ok
           /\ FeesRule(config) = FeesRule(Without(config, <<"fees", t>>, d))
  /\ (Structure /\ pc = "commitTransfers" /\ ThresholdsNonEmpty) =>
       \A t \in EnabledTokenSet : \A r \in Routes :
         (r[1] # ChainEthereum /\ HasPath(Thresholds, <<t, r[1], r[2]>>)
          /\ ~Truthy(Thresholds[t][r[1]][r[2]])) =>
           /\ CommitTransfersRule(config) # Ok
           /\ CommitTransfersRule(config) =
                CommitTransfersRule(
                  Without(config, <<"commitTransfers", "minThresholdAmount", t, r[1]>>, r[2]))

\* A fee entry that is present with the value 0, reported as a missing fee.
C10_Witness ==
  /\ Structure /\ Rejected
  /\ result.kind = "missing fee for chain for token"
  /\ HasPath(Section("fees"), <<result.token, result.chain>>)
  /\ Section("fees")[result.token][result.chain] = Num(0)

====
